---- MODULE Spec2Model ----
(***************************************************************************)
(* Model of the Solana HTTP helper service in src/api/src/main.rs: eight   *)
(* poem handlers that validate textual keys, build token / system          *)
(* instructions, sign and verify messages, and wrap every result in the    *)
(* ApiResponse envelope.                                                   *)
(*                                                                         *)
(* Texts (JSON strings) are sequences of one-character strings; byte       *)
(* strings are sequences of 0..255.  An Option is a sequence of length 0   *)
(* (None) or 1 (Some).  The base-58 and base-64 codecs are computed digit  *)
(* by digit at their real widths (32-byte keys, 64-byte signatures).       *)
(* ed25519 is replaced by a Schnorr signature over the additive group of   *)
(* integers modulo GroupOrder, which keeps the algebra of sign / verify.   *)
(***************************************************************************)
EXTENDS Integers, Sequences, FiniteSets, TLC

VARIABLES inflight, answered, wallet

vars == << inflight, answered, wallet >>

(***************************************************************************)
(* Bounds of the model.                                                    *)
(***************************************************************************)
\* lamports / token amounts range over 0..MaxAmount
MaxAmount == 1
\* Keypair::new() draws its seed from 1..NumSeeds
NumSeeds == 2
\* order of the group standing in for the ed25519 curve
GroupOrder == 251
\* connections the concurrent clients of SpecConcurrent hold open
NumConns == 2

(***************************************************************************)
(* Widths fixed by the libraries the handlers call.                        *)
(***************************************************************************)
\* size_of::<Pubkey>()
PUBKEY_BYTES == 32
\* longest base-58 text Pubkey::from_str accepts
MAX_BASE58_LEN == 44
\* Signature::new takes exactly this many bytes
SIGNATURE_BYTES == 64
\* Keypair::from_bytes takes secret || public
KEYPAIR_LENGTH == 64

(***************************************************************************)
(* Generic helpers on sequences.                                           *)
(***************************************************************************)
Some(x) == << x >>
None == << >>
IsSome(o) == Len(o) = 1
IsNone(o) == Len(o) = 0

Zeros(n) == [i \in 1..n |-> 0]
Repeat(c, n) == [i \in 1..n |-> c]

RECURSIVE LeadingCount(_, _, _)
LeadingCount(s, x, i) ==
    IF i > Len(s) \/ s[i] # x THEN 0 ELSE 1 + LeadingCount(s, x, i + 1)

StripLeading(s, x) == SubSeq(s, LeadingCount(s, x, 1) + 1, Len(s))

(***************************************************************************)
(* base-58 (base58::{ToBase58, FromBase58} and the bs58 decoder inside     *)
(* Pubkey::from_str / Pubkey::to_string).  The big number is held in       *)
(* 24-bit limbs; every digit is one multiply-add or divide pass over them. *)
(***************************************************************************)
BASE58_ALPHABET ==
    << "1","2","3","4","5","6","7","8","9","A","B","C","D","E","F","G","H","J","K","L","M","N","P","Q","R","S","T","U","V",
       "W","X","Y","Z","a","b","c","d","e","f","g","h","i","j","k","m","n","o","p","q","r","s","t","u","v","w","x","y","z" >>

BASE58_DIGITS ==
    [c \in {BASE58_ALPHABET[i] : i \in 1..58} |->
        (CHOOSE i \in 1..58 : BASE58_ALPHABET[i] = c) - 1]

Base58Digit(c) == IF c \in DOMAIN BASE58_DIGITS THEN BASE58_DIGITS[c] ELSE -1

Limb == 16777216

\* little-endian limbs: num * m + c
RECURSIVE MulAdd(_, _, _, _)
MulAdd(num, i, m, c) ==
    IF i > Len(num)
    THEN IF c = 0 THEN num ELSE Append(num, c)
    ELSE LET t == num[i] * m + c
         IN  MulAdd([num EXCEPT ![i] = t % Limb], i + 1, m, t \div Limb)

\* digits i.. of text folded into num, which never outgrows the text
RECURSIVE DecodeDigits(_, _, _)
DecodeDigits(text, i, num) ==
    IF i > Len(text) \/ Len(num) > Len(text) THEN num
    ELSE DecodeDigits(text, i + 1, MulAdd(num, 1, 58, Base58Digit(text[i])))

LimbBytes(l) == << l \div 65536, (l \div 256) % 256, l % 256 >>

RECURSIVE LimbsToBytes(_, _)
LimbsToBytes(num, i) ==
    IF i = 0 THEN << >> ELSE LimbBytes(num[i]) \o LimbsToBytes(num, i - 1)

\* Result<Vec<u8>, _>: leading '1's are zero bytes, the rest is one number
from_base58(text) ==
    IF \E i \in 1..Len(text) : Base58Digit(text[i]) < 0
    THEN [ok |-> FALSE, bytes |-> << >>]
    ELSE LET z   == LeadingCount(text, "1", 1)
             num == DecodeDigits(text, z + 1, << >>)
         IN  [ok |-> TRUE,
              bytes |-> Zeros(z) \o StripLeading(LimbsToBytes(num, Len(num)), 0)]

\* big-endian limbs of a byte string
BytesToLimbs(b) ==
    LET p == Zeros((3 - (Len(b) % 3)) % 3) \o b
    IN  [i \in 1..(Len(p) \div 3) |->
            p[3 * i - 2] * 65536 + p[3 * i - 1] * 256 + p[3 * i]]

\* big-endian limbs divided by 58 in place: << quotient, remainder >>
RECURSIVE DivMod58(_, _, _)
DivMod58(num, i, rem) ==
    IF i > Len(num) THEN << num, rem >>
    ELSE LET t == rem * Limb + num[i]
         IN  DivMod58([num EXCEPT ![i] = t \div 58], i + 1, t % 58)

RECURSIVE EncodeDigits(_)
EncodeDigits(num) ==
    IF num = << >> THEN << >>
    ELSE LET qr == DivMod58(num, 1, 0)
         IN  Append(EncodeDigits(StripLeading(qr[1], 0)), BASE58_ALPHABET[qr[2] + 1])

to_base58(bytes) ==
    Repeat("1", LeadingCount(bytes, 0, 1))
        \o EncodeDigits(StripLeading(BytesToLimbs(StripLeading(bytes, 0)), 0))

(***************************************************************************)
(* Pubkey (solana_sdk::pubkey).                                            *)
(***************************************************************************)
\* Pubkey::from_str: Result<Pubkey, ParsePubkeyError>
Pubkey_from_str(s) ==
    IF Len(s) > MAX_BASE58_LEN THEN [ok |-> FALSE, key |-> << >>]
    ELSE LET d == from_base58(s)
         IN  IF ~d.ok \/ Len(d.bytes) # PUBKEY_BYTES
             THEN [ok |-> FALSE, key |-> << >>]
             ELSE [ok |-> TRUE, key |-> d.bytes]

\* Pubkey::to_string
Pubkey_to_string(key) == to_base58(key)

(***************************************************************************)
(* Standard base-64 with padding (base64::engine::general_purpose::        *)
(* STANDARD).                                                              *)
(***************************************************************************)
BASE64_ALPHABET ==
    << "A","B","C","D","E","F","G","H","I","J","K","L","M","N","O","P","Q","R","S","T","U","V","W","X","Y","Z","a","b","c",
       "d","e","f","g","h","i","j","k","l","m","n","o","p","q","r","s","t","u","v","w","x","y","z","0","1","2","3","4","5",
       "6","7","8","9","+","/" >>

BASE64_DIGITS ==
    [c \in {BASE64_ALPHABET[i] : i \in 1..64} |->
        (CHOOSE i \in 1..64 : BASE64_ALPHABET[i] = c) - 1]

Base64Digit(c) == IF c \in DOMAIN BASE64_DIGITS THEN BASE64_DIGITS[c] ELSE -1

\* one group of up to three bytes -> four characters
EncodeGroup(g) ==
    LET n  == Len(g)
        b1 == g[1]
        b2 == IF n >= 2 THEN g[2] ELSE 0
        b3 == IF n >= 3 THEN g[3] ELSE 0
        v  == b1 * 65536 + b2 * 256 + b3
    IN  << BASE64_ALPHABET[(v \div 262144) + 1],
           BASE64_ALPHABET[((v \div 4096) % 64) + 1],
           IF n >= 2 THEN BASE64_ALPHABET[((v \div 64) % 64) + 1] ELSE "=",
           IF n >= 3 THEN BASE64_ALPHABET[(v % 64) + 1] ELSE "=" >>

RECURSIVE base64_encode(_)
base64_encode(bytes) ==
    IF bytes = << >> THEN << >>
    ELSE IF Len(bytes) <= 3 THEN EncodeGroup(bytes)
    ELSE EncodeGroup(SubSeq(bytes, 1, 3)) \o base64_encode(SubSeq(bytes, 4, Len(bytes)))

\* one group of four characters -> up to three bytes; `last` allows padding
DecodeGroup(g, last) ==
    LET pad == IF g[4] # "=" THEN 0 ELSE IF g[3] # "=" THEN 1 ELSE 2
        d   == [i \in 1..4 |-> IF i > 4 - pad THEN 0 ELSE Base64Digit(g[i])]
        v   == d[1] * 262144 + d[2] * 4096 + d[3] * 64 + d[4]
        all == << v \div 65536, (v \div 256) % 256, v % 256 >>
    IN  IF \/ (pad > 0 /\ ~last)
           \/ \E i \in 1..(4 - pad) : Base64Digit(g[i]) < 0
           \/ (pad = 1 /\ d[3] % 4 # 0)
           \/ (pad = 2 /\ d[2] % 16 # 0)
        THEN [ok |-> FALSE, bytes |-> << >>]
        ELSE [ok |-> TRUE, bytes |-> SubSeq(all, 1, 3 - pad)]

RECURSIVE DecodeGroups(_, _)
DecodeGroups(text, i) ==
    IF i > Len(text) THEN [ok |-> TRUE, bytes |-> << >>]
    ELSE LET g    == DecodeGroup(SubSeq(text, i, i + 3), i + 3 = Len(text))
             rest == DecodeGroups(text, i + 4)
         IN  IF g.ok /\ rest.ok
             THEN [ok |-> TRUE, bytes |-> g.bytes \o rest.bytes]
             ELSE [ok |-> FALSE, bytes |-> << >>]

\* Result<Vec<u8>, DecodeError>
base64_decode(text) ==
    IF Len(text) % 4 # 0 THEN [ok |-> FALSE, bytes |-> << >>]
    ELSE DecodeGroups(text, 1)

\* str::as_bytes for the ASCII characters of the two alphabets
Ascii(c) ==
    LET d == Base64Digit(c)
    IN  IF d < 0 THEN 63
        ELSE IF d < 26 THEN 65 + d
        ELSE IF d < 52 THEN 97 + (d - 26)
        ELSE IF d < 62 THEN 48 + (d - 52)
        ELSE IF d = 62 THEN 43 ELSE 47

as_bytes(text) == [i \in 1..Len(text) |-> Ascii(text[i])]

(***************************************************************************)
(* Keys and signatures (solana_sdk::signature over ed25519-dalek), as a    *)
(* Schnorr scheme over the integers modulo GroupOrder: a point or scalar   *)
(* is a number below GroupOrder, encoded big-endian in 32 bytes.           *)
(***************************************************************************)
\* stands in for SHA-512: a position-weighted digest, folded pairwise
RECURSIVE HashRange(_, _, _)
HashRange(bytes, lo, hi) ==
    IF lo > hi THEN 7
    ELSE IF lo = hi THEN (bytes[lo] + 1) * ((lo % 97) + 1)
    ELSE LET mid == (lo + hi) \div 2
         IN  (HashRange(bytes, lo, mid) * 31 + HashRange(bytes, mid + 1, hi)) % 65521

Hash(bytes) == HashRange(bytes, 1, Len(bytes))

EncodeScalar(n) == Zeros(PUBKEY_BYTES - 1) \o << n >>

\* CompressedEdwardsY::decompress: Option<point>
DecodePoint(bytes) ==
    IF /\ Len(bytes) = PUBKEY_BYTES
       /\ \A i \in 1..(PUBKEY_BYTES - 1) : bytes[i] = 0
       /\ bytes[PUBKEY_BYTES] < GroupOrder
    THEN Some(bytes[PUBKEY_BYTES])
    ELSE None

ScalarMultBase(s) == (s * 7) % GroupOrder

\* ExpandedSecretKey: the signing scalar and the nonce prefix of a seed
SecretScalar(secret) == Hash(<< 0 >> \o secret) % GroupOrder
SecretPrefix(secret) == Hash(<< 1 >> \o secret)

PublicOf(secret) == EncodeScalar(ScalarMultBase(SecretScalar(secret)))

\* Keypair::new() with the seed the random source returned
Keypair_new(seed) ==
    LET secret == EncodeScalar(seed)
    IN  [secret |-> secret, public |-> PublicOf(secret)]

\* Keypair::to_bytes
Keypair_to_bytes(kp) == kp.secret \o kp.public

\* Keypair::from_bytes: Result<Keypair, _>; the halves are not cross-checked
Keypair_from_bytes(bytes) ==
    IF Len(bytes) # KEYPAIR_LENGTH THEN None
    ELSE LET public == SubSeq(bytes, PUBKEY_BYTES + 1, KEYPAIR_LENGTH)
         IN  IF IsNone(DecodePoint(public)) THEN None
             ELSE Some([secret |-> SubSeq(bytes, 1, PUBKEY_BYTES), public |-> public])

Challenge(R, public, msg) == Hash(EncodeScalar(R) \o public \o msg) % GroupOrder

\* Keypair::sign_message: R || S
Keypair_sign_message(kp, msg) ==
    LET r == Hash(<< SecretPrefix(kp.secret) % 256, SecretPrefix(kp.secret) \div 256 >> \o msg)
                 % GroupOrder
        R == ScalarMultBase(r)
        S == (r + Challenge(R, kp.public, msg) * SecretScalar(kp.secret)) % GroupOrder
    IN  EncodeScalar(R) \o EncodeScalar(S)

\* Signature::new: GenericArray::clone_from_slice panics unless the slice
\* has SIGNATURE_BYTES bytes; None stands for the panic
Signature_new(bytes) ==
    IF Len(bytes) = SIGNATURE_BYTES THEN Some(bytes) ELSE None

\* Signature::verify(pubkey_bytes, message_bytes) -> bool
Signature_verify(sig, pubkey_bytes, msg) ==
    LET A == DecodePoint(pubkey_bytes)
        R == DecodePoint(SubSeq(sig, 1, PUBKEY_BYTES))
        S == DecodePoint(SubSeq(sig, PUBKEY_BYTES + 1, SIGNATURE_BYTES))
    IN  /\ IsSome(A) /\ IsSome(R) /\ IsSome(S)
        /\ ScalarMultBase(S[1])
             = (R[1] + Challenge(R[1], pubkey_bytes, msg) * A[1]) % GroupOrder

(***************************************************************************)
(* Program ids and instruction builders (spl_token::instruction,           *)
(* solana_sdk::system_instruction).                                        *)
(***************************************************************************)
SPL_TOKEN_ID_TEXT ==
    << "T","o","k","e","n","k","e","g","Q","f","e","Z","y","i","N","w","A","J","b","N","b","G","K","P","F","X","C","W","u",
       "B","v","f","9","S","s","6","2","3","V","Q","5","D","A" >>

SYSVAR_RENT_ID_TEXT ==
    << "S","y","s","v","a","r","R","e","n","t","1","1","1","1","1","1","1","1","1","1","1","1","1","1","1","1","1","1","1",
       "1","1","1","1","1","1","1","1","1","1","1","1","1","1" >>

SYSTEM_PROGRAM_ID_TEXT == Repeat("1", 32)

\* spl_token::id()
spl_token_id == from_base58(SPL_TOKEN_ID_TEXT).bytes
\* sysvar::rent::id()
sysvar_rent_id == from_base58(SYSVAR_RENT_ID_TEXT).bytes
\* system_program::id()
system_program_id == from_base58(SYSTEM_PROGRAM_ID_TEXT).bytes

\* AccountMeta::new / AccountMeta::new_readonly
AccountMeta_new(pubkey, is_signer) ==
    [pubkey |-> pubkey, is_signer |-> is_signer, is_writable |-> TRUE]
AccountMeta_new_readonly(pubkey, is_signer) ==
    [pubkey |-> pubkey, is_signer |-> is_signer, is_writable |-> FALSE]

\* u64::to_le_bytes
RECURSIVE le_bytes(_, _)
le_bytes(n, width) ==
    IF width = 0 THEN << >> ELSE << n % 256 >> \o le_bytes(n \div 256, width - 1)

\* Result<Instruction, ProgramError>: Some(ix) or None
initialize_mint(token_program_id, mint_pubkey, mint_authority_pubkey, freeze_authority, decimals) ==
    IF token_program_id # spl_token_id THEN None
    ELSE Some([program_id |-> token_program_id,
               accounts |-> << AccountMeta_new(mint_pubkey, FALSE),
                               AccountMeta_new_readonly(sysvar_rent_id, FALSE) >>,
               data |-> << 0, decimals >> \o mint_authority_pubkey
                           \o (IF IsSome(freeze_authority)
                               THEN << 1 >> \o freeze_authority[1] ELSE << 0 >>)])

mint_to(token_program_id, mint_pubkey, account_pubkey, owner_pubkey, signer_pubkeys, amount) ==
    IF token_program_id # spl_token_id THEN None
    ELSE Some([program_id |-> token_program_id,
               accounts |-> << AccountMeta_new(mint_pubkey, FALSE),
                               AccountMeta_new(account_pubkey, FALSE),
                               AccountMeta_new_readonly(owner_pubkey, signer_pubkeys = << >>) >>
                            \o [i \in 1..Len(signer_pubkeys) |->
                                   AccountMeta_new_readonly(signer_pubkeys[i], TRUE)],
               data |-> << 7 >> \o le_bytes(amount, 8)])

token_transfer(token_program_id, source_pubkey, destination_pubkey, authority_pubkey, signer_pubkeys, amount) ==
    IF token_program_id # spl_token_id THEN None
    ELSE Some([program_id |-> token_program_id,
               accounts |-> << AccountMeta_new(source_pubkey, FALSE),
                               AccountMeta_new(destination_pubkey, FALSE),
                               AccountMeta_new_readonly(authority_pubkey, signer_pubkeys = << >>) >>
                            \o [i \in 1..Len(signer_pubkeys) |->
                                   AccountMeta_new_readonly(signer_pubkeys[i], TRUE)],
               data |-> << 3 >> \o le_bytes(amount, 8)])

\* system_instruction::transfer: bincode of SystemInstruction::Transfer
system_transfer(from_pubkey, to_pubkey, lamports) ==
    [program_id |-> system_program_id,
     accounts |-> << AccountMeta_new(from_pubkey, TRUE), AccountMeta_new(to_pubkey, FALSE) >>,
     data |-> le_bytes(2, 4) \o le_bytes(lamports, 8)]

(***************************************************************************)
(* The response envelope.                                                  *)
(***************************************************************************)
STATUS_OK == 200
STATUS_BAD_REQUEST == 400

\* struct ApiResponse
ApiResponse(s, d, e) == [success |-> s, data |-> d, error |-> e]

\* Json<ApiResponse> on the wire: skip_serializing_if drops a None field
Json(r) ==
    [k \in {"success"} \cup (IF IsSome(r.data) THEN {"data"} ELSE {})
                       \cup (IF IsSome(r.error) THEN {"error"} ELSE {}) |->
        CASE k = "success" -> r.success
          [] k = "data"    -> r.data[1]
          [] k = "error"   -> r.error[1]]

success(data) ==
    [status |-> STATUS_OK, body |-> Json(ApiResponse(TRUE, Some(data), None))]

\* error() that also fills data
error_with_data(msg) ==
    [status |-> STATUS_BAD_REQUEST, body |-> Json(ApiResponse(FALSE, Some(msg), Some(msg)))]

error(msg) ==
    [status |-> STATUS_BAD_REQUEST, body |-> Json(ApiResponse(FALSE, None, Some(msg)))]

\* What running a handler amounts to: the response it returned (None when
\* the task panicked instead) and the builder calls it made on the way.
Returned(resp, calls) == [ret |-> Some(resp), calls |-> calls]
Panicked(calls) == [ret |-> None, calls |-> calls]

BuilderCall(name, keys) == [builder |-> name, keys |-> keys]

\* struct AccountMetaCamel on the wire
AccountMetaCamel(pubkey, is_signer, is_writable) ==
    [k \in {"pubkey", "isSigner"} \cup (IF IsSome(is_writable) THEN {"isWritable"} ELSE {}) |->
        CASE k = "pubkey"     -> pubkey
          [] k = "isSigner"   -> is_signer
          [] k = "isWritable" -> is_writable[1]]

\* serde_json::Map::insert
MapInsert(map, key, value) ==
    [k \in DOMAIN map \cup {key} |-> IF k = key THEN value ELSE map[k]]

(***************************************************************************)
(* Handlers.  A request body is the deserialized struct; a handler is a    *)
(* function of it (generate_keypair also of the seed the OS returned).     *)
(***************************************************************************)
generate_keypair(seed) ==
    LET keypair == Keypair_new(seed)
    IN  Returned(success([pubkey |-> Pubkey_to_string(keypair.public),
                          secret |-> to_base58(Keypair_to_bytes(keypair))]), << >>)

\* main.rs:163
create_token_rejects(mint_authority, mint) == ~mint_authority.ok \/ ~mint.ok

\* main.rs:175-182: the accounts keyed by their pubkey text
RECURSIVE create_token_accounts_map(_, _, _)
create_token_accounts_map(accounts, i, map) ==
    IF i > Len(accounts) THEN map
    ELSE LET meta == accounts[i]
             obj  == [pubkey |-> Pubkey_to_string(meta.pubkey),
                      isSigner |-> meta.is_signer,
                      isWritable |-> meta.is_writable]
         IN  create_token_accounts_map(accounts, i + 1,
                 MapInsert(map, Pubkey_to_string(meta.pubkey), obj))

create_token(req) ==
    LET mint_authority == Pubkey_from_str(req.mintAuthority)
        mint           == Pubkey_from_str(req.mint)
    IN  IF create_token_rejects(mint_authority, mint)
        THEN Returned(error("Invalid public key(s)"), << >>)
        ELSE IF ~mint.ok \/ ~mint_authority.ok THEN Panicked(<< >>)  \* unwrap() of an Err
        ELSE LET instruction == initialize_mint(spl_token_id, mint.key, mint_authority.key,
                                                None, req.decimals)
                 calls == << BuilderCall("initialize_mint", << mint.key, mint_authority.key >>) >>
             IN  IF IsSome(instruction)
                 THEN LET ix == instruction[1]
                      IN  Returned(success(
                              [program_id |-> Pubkey_to_string(ix.program_id),
                               accounts |-> create_token_accounts_map(ix.accounts, 1, << >>),
                               instruction_data |-> base64_encode(ix.data)]), calls)
                 ELSE Returned(error("Failed to create instruction"), calls)

\* main.rs:202
mint_token_rejects(mint, destination, authority) ==
    ~mint.ok \/ ~destination.ok \/ ~authority.ok

mint_token(req) ==
    LET mint        == Pubkey_from_str(req.mint)
        destination == Pubkey_from_str(req.destination)
        authority   == Pubkey_from_str(req.authority)
    IN  IF mint_token_rejects(mint, destination, authority)
        THEN Returned(error("Invalid public key(s)"), << >>)
        ELSE IF ~mint.ok \/ ~destination.ok \/ ~authority.ok
        THEN Panicked(<< >>)  \* unwrap() of an Err
        ELSE LET instruction == mint_to(spl_token_id, mint.key, destination.key,
                                        authority.key, << >>, req.amount)
                 calls == << BuilderCall("mint_to",
                                         << mint.key, destination.key, authority.key >>) >>
             IN  IF IsSome(instruction)
                 THEN LET ix == instruction[1]
                      IN  Returned(success(
                              [program_id |-> Pubkey_to_string(ix.program_id),
                               accounts |-> [i \in 1..Len(ix.accounts) |->
                                   AccountMetaCamel(Pubkey_to_string(ix.accounts[i].pubkey),
                                                    ix.accounts[i].is_signer,
                                                    Some(ix.accounts[i].is_writable))],
                               instruction_data |-> base64_encode(ix.data)]), calls)
                 ELSE Returned(error("Failed to create instruction"), calls)

\* the signature printed like the secret, in base-58
sign_message_signature_base58(signature) == to_base58(signature)

\* main.rs:244
sign_message_signature(signature) == base64_encode(signature)

\* main.rs:236
sign_message_missing(req) == req.message = << >> \/ req.secret = << >>

sign_message(req) ==
    IF sign_message_missing(req)
    THEN Returned(error("Missing required fields"), << >>)
    ELSE LET secret_bytes == from_base58(req.secret)
             keypair == IF secret_bytes.ok THEN Keypair_from_bytes(secret_bytes.bytes)
                        ELSE None
         IN  IF secret_bytes.ok /\ IsSome(keypair)
             THEN LET signature == Keypair_sign_message(keypair[1], as_bytes(req.message))
                  IN  Returned(success(
                          [signature |-> sign_message_signature(signature),
                           public_key |-> Pubkey_to_string(keypair[1].public),
                           message |-> req.message]), << >>)
             ELSE Returned(error("Invalid secret key"), << >>)

\* main.rs:259
verify_message_missing(req) ==
    req.message = << >> \/ req.signature = << >> \/ req.pubkey = << >>

\* main.rs:264: the pattern (Ok(pubkey), Ok(sig_bytes))
verify_message_parsed(pubkey, signature_bytes) == pubkey.ok /\ signature_bytes.ok

verify_message(req) ==
    IF verify_message_missing(req)
    THEN Returned(error("Missing required fields"), << >>)
    ELSE LET pubkey          == Pubkey_from_str(req.pubkey)
             signature_bytes == base64_decode(req.signature)
         IN  IF verify_message_parsed(pubkey, signature_bytes)
             THEN LET signature == Signature_new(signature_bytes.bytes)
                  IN  IF IsNone(signature) THEN Panicked(<< >>)
                      ELSE Returned(success(
                               [valid |-> Signature_verify(signature[1], pubkey.key,
                                                           as_bytes(req.message)),
                                message |-> req.message,
                                pubkey |-> req.pubkey]), << >>)
             ELSE Returned(error("Invalid signature or public key"), << >>)

\* main.rs:284
send_sol_rejects(from, to) == ~from.ok \/ ~to.ok

\* the zero check left out
send_sol_zero_skipped(req) == FALSE

\* main.rs:287
send_sol_zero(req) == req.lamports = 0

send_sol(req) ==
    LET from == Pubkey_from_str(req.from)
        to   == Pubkey_from_str(req.to)
    IN  IF send_sol_rejects(from, to)
        THEN Returned(error("Invalid public key(s)"), << >>)
        ELSE IF send_sol_zero(req)
        THEN Returned(error("Amount must be greater than zero"), << >>)
        ELSE IF ~from.ok \/ ~to.ok THEN Panicked(<< >>)  \* unwrap() of an Err
        ELSE LET ix == system_transfer(from.key, to.key, req.lamports)
             IN  Returned(success(
                     [program_id |-> Pubkey_to_string(ix.program_id),
                      accounts |-> [i \in 1..Len(ix.accounts) |->
                                       Pubkey_to_string(ix.accounts[i].pubkey)],
                      instruction_data |-> base64_encode(ix.data)]),
                     << BuilderCall("system_transfer", << from.key, to.key >>) >>)

\* the check without the mint, which nothing later uses
send_token_rejects_without_mint(destination, mint, owner) ==
    ~destination.ok \/ ~owner.ok

\* main.rs:308
send_token_rejects(destination, mint, owner) ==
    ~destination.ok \/ ~mint.ok \/ ~owner.ok

\* main.rs:311
send_token_zero(req) == req.amount = 0

\* the transfer taken from the mint account instead
send_token_transfer_from_mint(destination, mint, owner, amount) ==
    token_transfer(spl_token_id, mint, destination, owner, << >>, amount)

\* main.rs:315-322: the arguments handed to spl_token's transfer
send_token_transfer(destination, mint, owner, amount) ==
    token_transfer(spl_token_id, destination, destination, owner, << >>, amount)

send_token(req) ==
    LET destination == Pubkey_from_str(req.destination)
        mint        == Pubkey_from_str(req.mint)
        owner       == Pubkey_from_str(req.owner)
    IN  IF send_token_rejects(destination, mint, owner)
        THEN Returned(error("Invalid public key(s)"), << >>)
        ELSE IF send_token_zero(req)
        THEN Returned(error("Amount must be greater than zero"), << >>)
        ELSE IF ~destination.ok \/ ~owner.ok THEN Panicked(<< >>)  \* unwrap() of an Err
        ELSE LET instruction == send_token_transfer(destination.key, mint.key, owner.key,
                                                    req.amount)
                 calls == << BuilderCall("token_transfer",
                                         << destination.key, destination.key, owner.key >>) >>
             IN  IF IsSome(instruction)
                 THEN LET ix == instruction[1]
                      IN  Returned(success(
                              [program_id |-> Pubkey_to_string(ix.program_id),
                               accounts |-> [i \in 1..Len(ix.accounts) |->
                                   AccountMetaCamel(Pubkey_to_string(ix.accounts[i].pubkey),
                                                    ix.accounts[i].is_signer, None)],
                               instruction_data |-> base64_encode(ix.data)]), calls)
                 ELSE Returned(error("Failed to create instruction"), calls)

\* health that reports how many requests are open
health_counting_open ==
    Returned(success([status |-> "OK", open |-> Cardinality(inflight)]), << >>)

health == Returned(success([status |-> "OK"]), << >>)

(***************************************************************************)
(* Inputs the clients draw request fields from.                            *)
(***************************************************************************)
Seeds == 1..NumSeeds
Amounts == 0..MaxAmount
Conns == 1..NumConns

EmptyText == << >>

\* keys of generated keypairs, as /keypair prints them
KeypairPubkeyText(seed) == Pubkey_to_string(Keypair_new(seed).public)
KeypairSecretText(seed) == to_base58(Keypair_to_bytes(Keypair_new(seed)))

\* '0' is not a base-58 digit
BadAlphabetKeyText == Repeat("1", 31) \o << "0" >>
\* base-58 of 33 bytes
LongKeyText == Repeat("1", 33)
\* base-58 of 2 bytes
ShortKeyText == << "1", "z" >>
\* more than MAX_BASE58_LEN characters
OverlongKeyText == Repeat("z", MAX_BASE58_LEN + 1)

WalletKeyText == KeypairPubkeyText(1)

ValidKeyTexts == { WalletKeyText, SYSVAR_RENT_ID_TEXT }
MalformedKeyTexts ==
    { BadAlphabetKeyText, LongKeyText, ShortKeyText, OverlongKeyText, EmptyText }
KeyTexts == ValidKeyTexts \cup MalformedKeyTexts

GeneratedPubkeyTexts == { KeypairPubkeyText(s) : s \in Seeds }
PubkeyTexts == GeneratedPubkeyTexts \cup { SYSVAR_RENT_ID_TEXT } \cup MalformedKeyTexts

Messages == { EmptyText, << "h", "i" >>, << "y", "o" >>, << "s", "o", "l" >> }

SignatureText(seed, message) ==
    base64_encode(Keypair_sign_message(Keypair_new(seed), as_bytes(message)))

\* '!' is not a base-64 digit
BadAlphabetSignatureText == << "!", "!", "!", "!" >>
\* no padding: the length is not a multiple of four
UnpaddedSignatureText == << "A", "A" >>
\* well-formed base-64 of 3 bytes
ShortSignatureText == << "A", "A", "A", "A" >>
\* well-formed base-64 of 66 bytes
LongSignatureText == Repeat("A", 88)

GeneratedSignatureTexts ==
    { SignatureText(s, m) : s \in Seeds, m \in Messages \ { EmptyText } }
UndecodableSignatureTexts == { BadAlphabetSignatureText, UnpaddedSignatureText }
WrongLengthSignatureTexts == { ShortSignatureText, LongSignatureText }
SignatureTexts ==
    GeneratedSignatureTexts \cup UndecodableSignatureTexts
        \cup WrongLengthSignatureTexts \cup { EmptyText }

GeneratedSecretTexts == { KeypairSecretText(s) : s \in Seeds }
SecretTexts == GeneratedSecretTexts \cup { EmptyText, BadAlphabetKeyText, WalletKeyText }

Decimals == { 0, 9, 255 }

Call(endpoint, body) == [endpoint |-> endpoint, body |-> body]

HealthCalls == { Call("health", << >>) }
KeypairCalls == { Call("generate_keypair", << >>) }
CreateTokenCalls ==
    { Call("create_token", [mintAuthority |-> a, mint |-> m, decimals |-> d]) :
        a \in KeyTexts, m \in KeyTexts, d \in Decimals }
MintTokenCalls ==
    { Call("mint_token", [mint |-> m, destination |-> d, authority |-> a, amount |-> n]) :
        m \in KeyTexts, d \in KeyTexts, a \in KeyTexts, n \in Amounts }
SignMessageCalls ==
    { Call("sign_message", [message |-> m, secret |-> s]) :
        m \in Messages, s \in SecretTexts }
VerifyMessageCalls ==
    { Call("verify_message", [message |-> m, signature |-> s, pubkey |-> p]) :
        m \in Messages, s \in SignatureTexts, p \in PubkeyTexts }
SendSolCalls ==
    { Call("send_sol", [from |-> f, to |-> t, lamports |-> n]) :
        f \in KeyTexts, t \in KeyTexts, n \in Amounts }
SendTokenCalls ==
    { Call("send_token", [destination |-> d, mint |-> m, owner |-> o, amount |-> n]) :
        d \in KeyTexts, m \in KeyTexts, o \in KeyTexts, n \in Amounts }

Calls ==
    HealthCalls \cup KeypairCalls \cup CreateTokenCalls \cup MintTokenCalls
        \cup SignMessageCalls \cup VerifyMessageCalls \cup SendSolCalls \cup SendTokenCalls

\* one call per endpoint, one that is refused and one whose handler panics
ConcurrentCalls ==
    { Call("health", << >>),
      Call("generate_keypair", << >>),
      Call("create_token",
           [mintAuthority |-> WalletKeyText, mint |-> WalletKeyText, decimals |-> 9]),
      Call("mint_token",
           [mint |-> WalletKeyText, destination |-> WalletKeyText,
            authority |-> WalletKeyText, amount |-> MaxAmount]),
      Call("sign_message", [message |-> << "h", "i" >>, secret |-> KeypairSecretText(1)]),
      Call("verify_message",
           [message |-> << "h", "i" >>, signature |-> SignatureText(1, << "h", "i" >>),
            pubkey |-> KeypairPubkeyText(1)]),
      Call("verify_message",
           [message |-> << "h", "i" >>, signature |-> ShortSignatureText,
            pubkey |-> KeypairPubkeyText(1)]),
      Call("send_sol", [from |-> WalletKeyText, to |-> WalletKeyText, lamports |-> MaxAmount]),
      Call("send_sol", [from |-> WalletKeyText, to |-> WalletKeyText, lamports |-> 0]),
      Call("send_token",
           [destination |-> WalletKeyText, mint |-> WalletKeyText,
            owner |-> WalletKeyText, amount |-> MaxAmount]) }

(***************************************************************************)
(* The service as a state machine.  inflight holds the requests the        *)
(* listener has accepted and not answered, at most one per connection;     *)
(* answered holds, per connection, the exchange the client has just seen   *)
(* the end of; wallet is what a client kept from earlier responses.  A     *)
(* handler never yields, so serving one request is one step.               *)
(***************************************************************************)
Req(conn, call) == [conn |-> conn, endpoint |-> call.endpoint, body |-> call.body]

Exchange(req, out) == [req |-> req, ret |-> out.ret, calls |-> out.calls]

Answer(req, out) ==
    /\ inflight' = inflight \ { req }
    /\ answered' = answered \cup { Exchange(req, out) }
    /\ UNCHANGED wallet

serve_health ==
    \E req \in inflight : req.endpoint = "health" /\ Answer(req, health)

serve_generate_keypair ==
    \E req \in inflight : \E seed \in Seeds :
        req.endpoint = "generate_keypair" /\ Answer(req, generate_keypair(seed))

serve_create_token ==
    \E req \in inflight :
        req.endpoint = "create_token" /\ Answer(req, create_token(req.body))

serve_mint_token ==
    \E req \in inflight :
        req.endpoint = "mint_token" /\ Answer(req, mint_token(req.body))

serve_sign_message ==
    \E req \in inflight :
        req.endpoint = "sign_message" /\ Answer(req, sign_message(req.body))

serve_verify_message ==
    \E req \in inflight :
        req.endpoint = "verify_message" /\ Answer(req, verify_message(req.body))

serve_send_sol ==
    \E req \in inflight :
        req.endpoint = "send_sol" /\ Answer(req, send_sol(req.body))

serve_send_token ==
    \E req \in inflight :
        req.endpoint = "send_token" /\ Answer(req, send_token(req.body))

\* main.rs:354-362: the routes
Route ==
    \/ serve_health
    \/ serve_generate_keypair
    \/ serve_create_token
    \/ serve_mint_token
    \/ serve_sign_message
    \/ serve_verify_message
    \/ serve_send_sol
    \/ serve_send_token

NoWallet == [keypair |-> None, signed |-> None]

Init ==
    /\ inflight = {}
    /\ answered = {}
    /\ wallet = NoWallet

Busy(conn) ==
    \/ \E req \in inflight : req.conn = conn
    \/ \E x \in answered : x.req.conn = conn

\* A client sends a request on an idle connection ...
ClientSend(conn, call) ==
    /\ ~Busy(conn)
    /\ inflight' = inflight \cup { Req(conn, call) }
    /\ UNCHANGED << answered, wallet >>

\* ... and is done with the exchange once it has seen its end.
ClientClose(conn) ==
    /\ \E x \in answered : x.req.conn = conn
    /\ answered' = { x \in answered : x.req.conn # conn }
    /\ UNCHANGED << inflight, wallet >>

\* One client, one request at a time, any call.
Next ==
    \/ \E call \in Calls : ClientSend(1, call)
    \/ ClientClose(1)
    \/ Route

Spec == Init /\ [][Next]_vars

\* NumConns clients at once, each with its own connection.
NextConcurrent ==
    \/ \E conn \in Conns : \E call \in ConcurrentCalls : ClientSend(conn, call)
    \/ \E conn \in Conns : ClientClose(conn)
    \/ Route

SpecConcurrent == Init /\ [][NextConcurrent]_vars

\* A client that asks for a keypair, keeps it, signs with its secret, keeps
\* the signature and has it verified.
IsSuccess(x) == IsSome(x.ret) /\ x.ret[1].body.success

KeepKeypair ==
    \E x \in answered :
        /\ x.req.endpoint = "generate_keypair" /\ IsSuccess(x)
        /\ wallet' = [keypair |-> Some(x.ret[1].body.data), signed |-> None]
        /\ answered' = answered \ { x }
        /\ UNCHANGED inflight

KeepSignature ==
    \E x \in answered :
        /\ x.req.endpoint = "sign_message" /\ IsSuccess(x)
        /\ wallet' = [wallet EXCEPT !.signed = Some(x.ret[1].body.data)]
        /\ answered' = answered \ { x }
        /\ UNCHANGED inflight

AskKeypair == ClientSend(1, Call("generate_keypair", << >>))

AskSign ==
    /\ IsSome(wallet.keypair)
    /\ \E m \in Messages :
          ClientSend(1, Call("sign_message",
                             [message |-> m, secret |-> wallet.keypair[1].secret]))

AskVerify ==
    /\ IsSome(wallet.keypair) /\ IsSome(wallet.signed)
    /\ \E m \in Messages :
          ClientSend(1, Call("verify_message",
                             [message |-> m,
                              signature |-> wallet.signed[1].signature,
                              pubkey |-> wallet.keypair[1].pubkey]))

NextRoundTrip ==
    \/ AskKeypair
    \/ KeepKeypair
    \/ AskSign
    \/ KeepSignature
    \/ AskVerify
    \/ ClientClose(1)
    \/ serve_generate_keypair
    \/ serve_sign_message
    \/ serve_verify_message

SpecRoundTrip == Init /\ [][NextRoundTrip]_vars

(***************************************************************************)
(* Properties.                                                             *)
(***************************************************************************)
IsSuccessEnvelope(r) ==
    /\ r.status = STATUS_OK
    /\ DOMAIN r.body = { "success", "data" }
    /\ r.body.success = TRUE

IsErrorEnvelope(r) ==
    /\ r.status \in 400..499
    /\ DOMAIN r.body = { "success", "error" }
    /\ r.body.success = FALSE

Succeeded(x) == IsSome(x.ret) /\ IsSuccessEnvelope(x.ret[1])
Failed(x) == IsSome(x.ret) /\ IsErrorEnvelope(x.ret[1])
Data(x) == x.ret[1].body.data

\* the texts a request gives for its key fields
KeyFieldTexts(req) ==
    CASE req.endpoint = "create_token"   -> { req.body.mintAuthority, req.body.mint }
      [] req.endpoint = "mint_token"     ->
             { req.body.mint, req.body.destination, req.body.authority }
      [] req.endpoint = "verify_message" -> { req.body.pubkey }
      [] req.endpoint = "send_sol"       -> { req.body.from, req.body.to }
      [] req.endpoint = "send_token"     ->
             { req.body.destination, req.body.mint, req.body.owner }
      [] OTHER                           -> {}

AllKeysValid(req) == KeyFieldTexts(req) \subseteq ValidKeyTexts

\* C1: every response a handler returns is either the success envelope
\* (status 200, success = true, data present, error absent) or the failure
\* envelope (a 4xx status, success = false, error present, data absent).
C1_ExactlyOneEnvelope ==
    \A x \in answered :
        IsSome(x.ret) =>
            /\ IsSuccessEnvelope(x.ret[1]) \/ IsErrorEnvelope(x.ret[1])
            /\ ~(IsSuccessEnvelope(x.ret[1]) /\ IsErrorEnvelope(x.ret[1]))

\* both envelopes have been handed out at least by mint_token's two exits
C1_Witness ==
    \E x \in answered :
        /\ x.req.endpoint = "mint_token"
        /\ Failed(x)
        /\ "data" \notin DOMAIN x.ret[1].body

\* C2: a request with a malformed text (wrong alphabet, wrong length, empty)
\* in any key field ends with the failure envelope, whatever its other
\* fields are, and without any instruction builder having been called.
C2_MalformedKeyRejected ==
    \A x \in answered :
        KeyFieldTexts(x.req) \cap MalformedKeyTexts # {} =>
            Failed(x) /\ x.calls = << >>

\* send_token was refused for its mint alone, with a positive amount
C2_Witness ==
    \E x \in answered :
        /\ x.req.endpoint = "send_token"
        /\ x.req.body.mint \in MalformedKeyTexts
        /\ x.req.body.destination \in ValidKeyTexts
        /\ x.req.body.owner \in ValidKeyTexts
        /\ x.req.body.amount >= 1
        /\ Failed(x)

\* the signature bytes of a verify_message request, when its text is base-64
DecodedSignature(req) == base64_decode(req.body.signature)

\* the signature is one for this message under this key
Matches(req) ==
    /\ Len(DecodedSignature(req).bytes) = SIGNATURE_BYTES
    /\ Signature_verify(DecodedSignature(req).bytes, Pubkey_from_str(req.body.pubkey).key,
                        as_bytes(req.body.message))

\* C3: a verify_message request with all three fields non-empty ends with a
\* success envelope carrying valid = false when the pubkey parses and the
\* signature decodes but does not match, and with the failure envelope when
\* the signature text or the pubkey text does not decode.
C3_VerifyOutcomes ==
    \A x \in answered :
        (x.req.endpoint = "verify_message" /\ ~verify_message_missing(x.req.body)) =>
            IF Pubkey_from_str(x.req.body.pubkey).ok /\ DecodedSignature(x.req).ok
            THEN ~Matches(x.req) => (Succeeded(x) /\ Data(x).valid = FALSE)
            ELSE Failed(x)

\* C4: a verify_message request whose signature text is well-formed base-64
\* of a byte string that is not 64 bytes long ends with the failure
\* envelope: the handler returns, and does not report success.
C4_WrongLengthSignatureRejected ==
    \A x \in answered :
        ( /\ x.req.endpoint = "verify_message"
          /\ ~verify_message_missing(x.req.body)
          /\ DecodedSignature(x.req).ok
          /\ Len(DecodedSignature(x.req).bytes) # SIGNATURE_BYTES ) =>
            Failed(x)

\* the amount field of an amount-bearing request
AmountOf(req) ==
    IF req.endpoint = "send_sol" THEN req.body.lamports ELSE req.body.amount

\* C5: mint_token, send_sol and send_token each answer a request with valid
\* keys and a zero amount with the failure envelope.
C5_ZeroAmountRejected ==
    \A x \in answered :
        ( /\ x.req.endpoint \in { "mint_token", "send_sol", "send_token" }
          /\ AllKeysValid(x.req)
          /\ AmountOf(x.req) = 0 ) =>
            Failed(x)

\* C7: send_sol with valid from and to refuses lamports = 0 before building
\* anything, and for lamports >= 1 returns a success envelope whose accounts
\* are exactly the from key and the to key, in that order.
C7_SendSol ==
    \A x \in answered :
        (x.req.endpoint = "send_sol" /\ AllKeysValid(x.req)) =>
            IF x.req.body.lamports = 0
            THEN Failed(x) /\ x.calls = << >>
            ELSE /\ Succeeded(x)
                 /\ Data(x).accounts = << x.req.body.from, x.req.body.to >>

\* a transfer from an account to itself went through
C7_Witness ==
    \E x \in answered :
        /\ x.req.endpoint = "send_sol"
        /\ x.req.body.from = x.req.body.to
        /\ x.req.body.from \in ValidKeyTexts
        /\ x.req.body.lamports >= 1
        /\ Succeeded(x)
        /\ Len(Data(x).accounts) = 2

\* C8: create_token with valid keys returns a success envelope whose
\* accounts mapping holds every account of the initialize-mint instruction:
\* the mint, writable and not a signer, and the rent sysvar.
C8_CreateTokenAccounts ==
    \A x \in answered :
        (x.req.endpoint = "create_token" /\ AllKeysValid(x.req)) =>
            /\ Succeeded(x)
            /\ x.req.body.mint \in DOMAIN Data(x).accounts
            /\ Data(x).accounts[x.req.body.mint].isWritable = TRUE
            /\ Data(x).accounts[x.req.body.mint].isSigner = FALSE
            /\ SYSVAR_RENT_ID_TEXT \in DOMAIN Data(x).accounts

\* C10: send_token with valid keys and a positive amount returns a success
\* envelope whose accounts are the destination twice and then the owner,
\* signer flags false, false, true, none with an isWritable field, and the
\* same response whichever valid mint the request names.
C10_SendTokenAccounts ==
    \A x \in answered :
        ( /\ x.req.endpoint = "send_token"
          /\ AllKeysValid(x.req)
          /\ x.req.body.amount >= 1 ) =>
            /\ Succeeded(x)
            /\ Data(x).accounts =
                 << [pubkey |-> x.req.body.destination, isSigner |-> FALSE],
                    [pubkey |-> x.req.body.destination, isSigner |-> FALSE],
                    [pubkey |-> x.req.body.owner, isSigner |-> TRUE] >>
            /\ \A m \in ValidKeyTexts :
                   send_token([x.req.body EXCEPT !.mint = m]).ret = x.ret

\* a transfer whose mint, destination and owner are not all the same key
C10_Witness ==
    \E x \in answered :
        /\ x.req.endpoint = "send_token"
        /\ AllKeysValid(x.req)
        /\ x.req.body.amount >= 1
        /\ x.req.body.mint # x.req.body.destination
        /\ x.req.body.owner # x.req.body.destination
        /\ Succeeded(x)

\* the request signs with the secret of the keypair in the wallet
SignsWithWallet(x) ==
    /\ x.req.endpoint = "sign_message"
    /\ IsSome(wallet.keypair)
    /\ x.req.body.secret = wallet.keypair[1].secret

\* the request has the wallet's signature verified against the message it
\* was made for and the wallet's public key
VerifiesWallet(x) ==
    /\ x.req.endpoint = "verify_message"
    /\ IsSome(wallet.keypair) /\ IsSome(wallet.signed)
    /\ x.req.body.signature = wallet.signed[1].signature
    /\ x.req.body.message = wallet.signed[1].message
    /\ x.req.body.pubkey = wallet.keypair[1].pubkey

\* C6 as stated: with the secret of a generated keypair, sign_message
\* succeeds for every message, the empty one included, and verify_message
\* finds the returned signature valid for that message and the keypair's
\* public key.
C6_RoundTripEveryMessage ==
    \A x \in answered :
        /\ SignsWithWallet(x) => Succeeded(x)
        /\ VerifiesWallet(x) => (Succeeded(x) /\ Data(x).valid = TRUE)

\* C6: with the secret of a generated keypair, sign_message succeeds for
\* every non-empty message and names the keypair's public key, and refuses
\* the empty message with the failure envelope; verify_message finds the
\* returned signature valid for that message and the keypair's public key.
C6_RoundTripNonEmpty ==
    \A x \in answered :
        /\ SignsWithWallet(x) =>
             IF x.req.body.message = EmptyText
             THEN Failed(x)
             ELSE /\ Succeeded(x)
                  /\ Data(x).public_key = wallet.keypair[1].pubkey
                  /\ Data(x).message = x.req.body.message
        /\ VerifiesWallet(x) => (Succeeded(x) /\ Data(x).valid = TRUE)

\* a signature made with a generated keypair came back valid
C6_Witness ==
    \E x \in answered :
        /\ VerifiesWallet(x)
        /\ Succeeded(x)
        /\ Data(x).valid = TRUE

====
